---- MODULE Spec2Model ----
(***************************************************************************)
(* Model of scripts/cost-optimization.py (class CostOptimizer and the      *)
(* __main__ block).                                                        *)
(*                                                                         *)
(* Python values are modelled as follows.                                  *)
(*   dict            a record; its keys are DOMAIN d                       *)
(*   list            a sequence                                            *)
(*   float / int     an integer (every float literal of the script is a    *)
(*                   whole number); the quotient of line 117 is kept as an *)
(*                   exact fraction [num, den]                             *)
(*   a call          Return(v) or Raise(e): whether the call raised, the   *)
(*                   exception's text, and the returned value (a set with  *)
(*                   at most one element)                                  *)
(* The external services (boto3 clients, the clock) are the environment:   *)
(* every call of them is a nondeterministic choice among the answers the   *)
(* service can give.                                                       *)
(*                                                                         *)
(* Two specifications share all actions.  Spec is the script as written:   *)
(* the component list of lines 98-101 and the get_total_cost() of lines    *)
(* 85-87.  SpecAny runs the same report code on an arbitrary component     *)
(* list and an arbitrary billing total, the two places the script marks as *)
(* placeholders (line 86, line 100).                                       *)
(***************************************************************************)
EXTENDS Integers, Sequences, FiniteSets

VARIABLES
    pc,                      \* position of the driver / generate_cost_report
    components,              \* the list of lines 98-101
    total_cost,              \* what get_total_cost() answers
    report,                  \* the dict `report` of generate_cost_report ({} : none yet)
    total_potential_savings, \* the local of line 103
    idx,                     \* position of the for loop of line 105 (1-based)
    calls,                   \* CostOptimizer methods called by the current report, in order
    stdout,                  \* lines written to sys.stdout by the current run
    stderr,                  \* lines written to sys.stderr by the current run
    last                     \* the last direct call of an analyzer and its outcome

vars == <<pc, components, total_cost, report, total_potential_savings, idx,
          calls, stdout, stderr, last>>

----------------------------------------------------------------------------
(* Bounds *)

MaxComponents == 2      \* longest component list of SpecAny
MaxCost == 2            \* largest billing total of SpecAny
MaxMembers == 2         \* longest DBClusterMembers list
MaxStorage == 3         \* largest AllocatedStorage
MaxBrokers == 2         \* largest NumberOfBrokerNodes

----------------------------------------------------------------------------
(* Python helpers *)

Return(v) == [raised |-> FALSE, exc |-> "", ret |-> {v}]

Raise(e) == [raised |-> TRUE, exc |-> e, ret |-> {}]

The(s) == CHOOSE x \in s : TRUE

\* dict.get(key, default)
DictGet(d, key, default) == IF key \in DOMAIN d THEN d[key] ELSE default

\* x or y, for numbers: 0 and 0.0 are falsy
PyOr(x, y) == IF x = 0 THEN y ELSE x

\* a / b
TrueDiv(a, b) ==
    IF b = 0 THEN Raise("ZeroDivisionError") ELSE Return([num |-> a, den |-> b])

\* equality of two fractions
FracEq(p, q) == p.num * q.den = q.num * p.den

----------------------------------------------------------------------------
(* The environment: what the external services can answer *)

ApiOk(r) == [raises |-> FALSE, exc |-> "", resp |-> {r}]

ApiRaise(e) == [raises |-> TRUE, exc |-> e, resp |-> {}]

ClusterNames == {"securazion-production", "any-name"}

ClusterIdentifiers == {"securazion-db", "securazion-replica", "no-such-db"}

ClusterArns == {"arn:aws:kafka:cluster/securazion", "arn:aws:kafka:cluster/none"}

Timestamps == {"2026-01-01T00:00:00", "2026-01-02T00:00:00"}

\* a member of DBClusterMembers: with and without a DBInstanceClass entry
DBClusterMember ==
    { [DBInstanceIdentifier |-> "db-1", IsClusterWriter |-> TRUE],
      [DBInstanceIdentifier |-> "db-1", IsClusterWriter |-> TRUE,
       DBInstanceClass |-> "db.r5.large"] }

SeqsUpTo(S, n) == UNION { [1..k -> S] : k \in 0..n }

DBClusterMemberList == SeqsUpTo(DBClusterMember, MaxMembers)

\* a cluster descriptor: AllocatedStorage is optional
DBCluster ==
    { [DBClusterMembers |-> m] : m \in DBClusterMemberList }
    \cup { [DBClusterMembers |-> m, AllocatedStorage |-> s] :
             m \in DBClusterMemberList, s \in 1..MaxStorage }

\* rds.describe_db_clusters(DBClusterIdentifier=...)
DescribeDBClusters ==
    { ApiRaise(e) : e \in {"DBClusterNotFoundFault", "EndpointConnectionError"} }
    \cup { ApiOk([DBClusters |-> <<>>]) }
    \cup { ApiOk([DBClusters |-> <<c>>]) : c \in DBCluster }

\* boto3.client('kafka')
KafkaClient == { ApiOk("kafka"), ApiRaise("NoRegionError") }

\* msk.describe_cluster(ClusterArn=...)
DescribeCluster ==
    { ApiRaise(e) : e \in {"NotFoundException", "EndpointConnectionError"} }
    \cup { ApiOk([ClusterInfo |-> [NumberOfBrokerNodes |-> n]]) : n \in 1..MaxBrokers }

----------------------------------------------------------------------------
(* CostOptimizer: the analyzers (lines 18-87) *)

\* faulty variant: the result names the production cluster whatever the argument
analyze_cluster_usage_fixed_name(cluster_name) ==
    Return([cluster |-> "securazion-production",
            metrics |-> [cpu_utilization |-> 0, memory_utilization |-> 0,
                         pod_count |-> 0],
            recommendations |-> <<>>,
            total_estimated_savings |-> 0])

\* analyze_cluster_usage(cluster_name); the two datetime values of lines 21-22
\* are computed and never used
analyze_cluster_usage(cluster_name) ==
    LET metrics == [cpu_utilization |-> 0, memory_utilization |-> 0, pod_count |-> 0]
        recommendations == <<>>
    IN  Return([cluster |-> cluster_name,
                metrics |-> metrics,
                recommendations |-> recommendations,
                total_estimated_savings |-> 0])

\* lines 50-65 of analyze_rds_usage, outside the try block
rds_placeholder_analysis(cluster_identifier, cluster) ==
    LET storage_used == DictGet(cluster, "AllocatedStorage", 100)
        storage_free == 0
        members == cluster.DBClusterMembers
        result(instance_class) ==
            [cluster |-> cluster_identifier,
             instance_class |-> instance_class,
             storage |-> [allocated_gb |-> storage_used,
                          free_gb |-> storage_free,
                          percent_free |-> 0],
             replicas |-> <<>>,
             recommendations |-> <<>>]
    IN  IF members # <<>>
        THEN IF "DBInstanceClass" \in DOMAIN members[1]
             THEN Return(result(members[1].DBInstanceClass))
             ELSE Raise("KeyError: 'DBInstanceClass'")
        ELSE Return(result("unknown"))

\* faulty variant: no try block around the API call
analyze_rds_usage_no_try(cluster_identifier, api) ==
    IF api.raises
    THEN Raise(api.exc)
    ELSE LET clusters == The(api.resp)
         IN  IF clusters.DBClusters = <<>>
             THEN Return([error |-> "Cluster not found"])
             ELSE rds_placeholder_analysis(cluster_identifier, clusters.DBClusters[1])

\* analyze_rds_usage(cluster_identifier); api is the answer of
\* rds.describe_db_clusters
analyze_rds_usage(cluster_identifier, api) ==
    IF api.raises
    THEN Return([error |-> api.exc])
    ELSE LET clusters == The(api.resp)
         IN  IF clusters.DBClusters = <<>>
             THEN Return([error |-> "Cluster not found"])
             ELSE rds_placeholder_analysis(cluster_identifier, clusters.DBClusters[1])

\* analyze_kafka_usage(cluster_arn); client is the answer of
\* boto3.client('kafka') (line 69, before the try), api the answer of
\* msk.describe_cluster
analyze_kafka_usage(cluster_arn, client, api) ==
    IF client.raises
    THEN Raise(client.exc)
    ELSE IF api.raises
         THEN Return([error |-> api.exc])
         ELSE LET cluster == The(api.resp)
                  broker_count == cluster.ClusterInfo.NumberOfBrokerNodes
              IN  Return([cluster |-> cluster_arn,
                          brokers |-> [count |-> broker_count],
                          recommendations |-> <<>>])

\* get_total_cost()
get_total_cost == 0

\* what each analyzer asks of the environment
EnvOf(analyzer) ==
    CASE analyzer = "analyze_cluster_usage" -> { [now |-> t] : t \in Timestamps }
      [] analyzer = "analyze_rds_usage" ->
            { [describe_db_clusters |-> a] : a \in DescribeDBClusters }
      [] analyzer = "analyze_kafka_usage" ->
            { [client |-> c, describe_cluster |-> a] :
                c \in KafkaClient, a \in DescribeCluster }

\* analyzer(*args) of line 107
Invoke(analyzer, args, env) ==
    CASE analyzer = "analyze_cluster_usage" -> analyze_cluster_usage(args[1])
      [] analyzer = "analyze_rds_usage" ->
            analyze_rds_usage(args[1], env.describe_db_clusters)
      [] analyzer = "analyze_kafka_usage" ->
            analyze_kafka_usage(args[1], env.client, env.describe_cluster)

----------------------------------------------------------------------------
(* CostOptimizer.generate_cost_report (lines 89-120) *)

\* faulty variant: a second component was added to the list
component_list_with_rds ==
    << [component_type |-> "eks", analyzer |-> "analyze_cluster_usage",
        args |-> <<"securazion-production">>],
       [component_type |-> "rds", analyzer |-> "analyze_rds_usage",
        args |-> <<"securazion-db">>] >>

\* components, lines 98-101
component_list ==
    << [component_type |-> "eks", analyzer |-> "analyze_cluster_usage",
        args |-> <<"securazion-production">>] >>

\* lines 91-96
new_report(now, cost) ==
    [timestamp |-> now,
     time_range |-> "LAST_30_DAYS",
     total_current_cost |-> cost,
     optimizations |-> <<>>]

\* the line printed by line 114
error_line(component_type, e) ==
    [text |-> "Error analyzing", component_type |-> component_type, e |-> e]

\* faulty variant: an analysis that is an error mapping gets no entry
loop_body_skips_errors(rep, total, out, component, analysis) ==
    IF analysis.raised
    THEN [report |-> rep, total |-> total,
          stdout |-> Append(out, error_line(component.component_type, analysis.exc)),
          propagated |-> FALSE]
    ELSE IF "error" \in DOMAIN The(analysis.ret)
         THEN [report |-> rep, total |-> total, stdout |-> out, propagated |-> FALSE]
         ELSE [report |-> [rep EXCEPT !.optimizations =
                              Append(@, [component |-> component.component_type,
                                         analysis |-> The(analysis.ret)])],
               total |-> total + DictGet(The(analysis.ret), "total_estimated_savings", 0),
               stdout |-> out,
               propagated |-> FALSE]

\* faulty variant: no try block in the loop, the analyzer's exception leaves the loop
loop_body_no_try(rep, total, out, component, analysis) ==
    IF analysis.raised
    THEN [report |-> rep, total |-> total, stdout |-> out, propagated |-> TRUE]
    ELSE [report |-> [rep EXCEPT !.optimizations =
                         Append(@, [component |-> component.component_type,
                                    analysis |-> The(analysis.ret)])],
          total |-> total + DictGet(The(analysis.ret), "total_estimated_savings", 0),
          stdout |-> out,
          propagated |-> FALSE]

\* one iteration of the loop, lines 106-114, given the outcome of line 107:
\* the report, the running total, standard output, and whether an exception
\* leaves the loop
loop_body(rep, total, out, component, analysis) ==
    IF analysis.raised
    THEN [report |-> rep,
          total |-> total,
          stdout |-> Append(out, error_line(component.component_type, analysis.exc)),
          propagated |-> FALSE]
    ELSE [report |-> [rep EXCEPT !.optimizations =
                         Append(@, [component |-> component.component_type,
                                    analysis |-> The(analysis.ret)])],
          total |-> total + DictGet(The(analysis.ret), "total_estimated_savings", 0),
          stdout |-> out,
          propagated |-> FALSE]

\* faulty variant: the division has no guard
savings_percentage_no_guard(total, cost) ==
    LET q == TrueDiv(total, cost)
    IN  IF q.raised THEN q
        ELSE Return([num |-> The(q.ret).num * 100, den |-> The(q.ret).den])

\* the right-hand side of line 117
savings_percentage(total, cost) ==
    LET q == TrueDiv(total, PyOr(cost, 1))
    IN  IF q.raised THEN q
        ELSE Return([num |-> The(q.ret).num * 100, den |-> The(q.ret).den])

\* a dict with one more key: d[key] = value on a key d does not have
SetItem(d, key, value) ==
    [k \in DOMAIN d \cup {key} |-> IF k = key THEN value ELSE d[k]]

\* faulty variant: the priority recommendations are not added
finish_report_no_priority(rep, total) ==
    LET pct == savings_percentage(total, rep.total_current_cost)
    IN  IF pct.raised THEN pct
        ELSE Return(SetItem(SetItem(rep, "total_potential_savings", total),
                            "savings_percentage", The(pct.ret)))

\* lines 116-120
finish_report(rep, total) ==
    LET pct == savings_percentage(total, rep.total_current_cost)
    IN  IF pct.raised THEN pct
        ELSE Return(SetItem(SetItem(SetItem(rep,
                 "total_potential_savings", total),
                 "savings_percentage", The(pct.ret)),
                 "priority_recommendations",
                 [high |-> <<>>, medium |-> <<>>, low |-> <<>>]))

----------------------------------------------------------------------------
(* State machine *)

\* the components a list of SpecAny is made of: each analyzer under its tag
ComponentChoice ==
    { [component_type |-> "eks", analyzer |-> "analyze_cluster_usage", args |-> <<n>>] :
        n \in ClusterNames }
    \cup { [component_type |-> "rds", analyzer |-> "analyze_rds_usage",
            args |-> <<"securazion-db">>],
          [component_type |-> "msk", analyzer |-> "analyze_kafka_usage",
            args |-> <<"arn:aws:kafka:cluster/securazion">>] }

InitCommon ==
    /\ pc = "idle"
    /\ report = {}
    /\ total_potential_savings = 0
    /\ idx = 1
    /\ calls = <<>>
    /\ stdout = <<>>
    /\ stderr = <<>>
    /\ last = {}

\* the script as written
Init ==
    /\ InitCommon
    /\ components = component_list
    /\ total_cost = get_total_cost

\* any component list, any billing total
InitAny ==
    /\ InitCommon
    /\ components \in SeqsUpTo(ComponentChoice, MaxComponents)
    /\ total_cost \in 0..MaxCost

\* A caller other than __main__ makes one call of an analyzer and stops.

\* a caller invokes optimizer.analyze_cluster_usage(name)
CallAnalyzeClusterUsage ==
    /\ pc = "idle"
    /\ \E name \in ClusterNames, env \in EnvOf("analyze_cluster_usage") :
         last' = { [op |-> "analyze_cluster_usage", args |-> <<name>>, env |-> env,
                    out |-> Invoke("analyze_cluster_usage", <<name>>, env)] }
    /\ pc' = "called"
    /\ UNCHANGED <<components, total_cost, report, total_potential_savings,
                   idx, calls, stdout, stderr>>

\* a caller invokes optimizer.analyze_rds_usage(identifier)
CallAnalyzeRdsUsage ==
    /\ pc = "idle"
    /\ \E id \in ClusterIdentifiers, env \in EnvOf("analyze_rds_usage") :
         last' = { [op |-> "analyze_rds_usage", args |-> <<id>>, env |-> env,
                    out |-> Invoke("analyze_rds_usage", <<id>>, env)] }
    /\ pc' = "called"
    /\ UNCHANGED <<components, total_cost, report, total_potential_savings,
                   idx, calls, stdout, stderr>>

\* a caller invokes optimizer.analyze_kafka_usage(arn)
CallAnalyzeKafkaUsage ==
    /\ pc = "idle"
    /\ \E arn \in ClusterArns, env \in EnvOf("analyze_kafka_usage") :
         last' = { [op |-> "analyze_kafka_usage", args |-> <<arn>>, env |-> env,
                    out |-> Invoke("analyze_kafka_usage", <<arn>>, env)] }
    /\ pc' = "called"
    /\ UNCHANGED <<components, total_cost, report, total_potential_savings,
                   idx, calls, stdout, stderr>>

\* __main__, lines 123-124, and generate_cost_report up to line 103
ReportStart ==
    /\ pc = "idle"
    /\ \E now \in Timestamps : report' = { new_report(now, total_cost) }
    /\ calls' = << [op |-> "get_total_cost", args |-> <<>>, raised |-> FALSE] >>
    /\ total_potential_savings' = 0
    /\ idx' = 1
    /\ pc' = "loop"
    /\ UNCHANGED <<components, total_cost, stdout, stderr, last>>

\* one iteration of the for loop, lines 105-114
LoopIteration ==
    /\ pc = "loop"
    /\ idx <= Len(components)
    /\ LET component == components[idx]
       IN  \E env \in EnvOf(component.analyzer) :
             LET analysis == Invoke(component.analyzer, component.args, env)
                 next == loop_body(The(report), total_potential_savings, stdout,
                                   component, analysis)
             IN  /\ calls' = Append(calls, [op |-> component.analyzer,
                                            args |-> component.args,
                                            raised |-> analysis.raised])
                 /\ report' = { next.report }
                 /\ total_potential_savings' = next.total
                 /\ stdout' = next.stdout
                 /\ pc' = IF next.propagated THEN "crashed" ELSE "loop"
    /\ idx' = idx + 1
    /\ UNCHANGED <<components, total_cost, stderr, last>>

\* the loop is over: lines 116-120
ReportFinish ==
    /\ pc = "loop"
    /\ idx > Len(components)
    /\ LET r == finish_report(The(report), total_potential_savings)
       IN  IF r.raised
           THEN /\ pc' = "crashed"
                /\ UNCHANGED report
           ELSE /\ pc' = "returned"
                /\ report' = r.ret
    /\ UNCHANGED <<components, total_cost, total_potential_savings, idx, calls,
                   stdout, stderr, last>>

\* __main__, line 125: print(json.dumps(report, indent=2))
MainPrint ==
    /\ pc = "returned"
    /\ stdout' = Append(stdout, [text |-> "json.dumps", report |-> The(report)])
    /\ pc' = "exit"
    /\ UNCHANGED <<components, total_cost, report, total_potential_savings, idx,
                   calls, stderr, last>>

Next ==
    \/ CallAnalyzeClusterUsage
    \/ CallAnalyzeRdsUsage
    \/ CallAnalyzeKafkaUsage
    \/ ReportStart
    \/ LoopIteration
    \/ ReportFinish
    \/ MainPrint

Spec == Init /\ [][Next]_vars

SpecAny == InitAny /\ [][Next]_vars

----------------------------------------------------------------------------
(* Properties *)

ReportKeys ==
    {"timestamp", "time_range", "total_current_cost", "optimizations",
     "total_potential_savings", "savings_percentage", "priority_recommendations"}

\* generate_cost_report has returned
Returned == pc \in {"returned", "exit"}

\* the positions in the component list whose analyzer returned, in order
RECURSIVE ReturnedUpTo(_)
ReturnedUpTo(n) ==
    IF n = 0 THEN <<>>
    ELSE IF calls[n + 1].raised THEN ReturnedUpTo(n - 1)
         ELSE Append(ReturnedUpTo(n - 1), n)

\* the positions in the component list whose analyzer raised, in order
RECURSIVE RaisedUpTo(_)
RaisedUpTo(n) ==
    IF n = 0 THEN <<>>
    ELSE IF calls[n + 1].raised THEN Append(RaisedUpTo(n - 1), n)
         ELSE RaisedUpTo(n - 1)

RECURSIVE SumSavings(_)
SumSavings(entries) ==
    IF entries = <<>> THEN 0
    ELSE (IF "total_estimated_savings" \in DOMAIN Head(entries).analysis
          THEN Head(entries).analysis.total_estimated_savings ELSE 0)
         + SumSavings(Tail(entries))

\* C1: a report that generate_cost_report returns has exactly the seven
\* documented top-level keys, whatever the analyzers of the list did
\* (returned a result, returned an error mapping, or raised).
C1_ReportHasSevenKeys ==
    Returned => DOMAIN The(report) = ReportKeys

C1_Witness ==
    /\ pc = "returned"
    /\ \E k \in 2..Len(calls) : calls[k].raised
    /\ \E j \in 1..Len(The(report).optimizations) :
         "error" \in DOMAIN The(report).optimizations[j].analysis

\* C2: a loop iteration whose analyzer raises leaves the optimizations list
\* as it was and goes on to the next component; generate_cost_report never
\* ends in an exception, and the report it returns has one entry for each
\* analyzer that returned and none for an analyzer that raised.
C2_RaiseDoesNotAbort ==
    [][ /\ (pc = "loop" /\ Len(calls') = Len(calls) + 1 /\ calls'[Len(calls')].raised)
           => /\ pc' = "loop"
              /\ idx' = idx + 1
              /\ The(report').optimizations = The(report).optimizations
        /\ pc' # "crashed"
        /\ pc' = "returned"
           => /\ Len(calls') = Len(components) + 1
              /\ Len(The(report').optimizations) = Len(ReturnedUpTo(Len(components)))'
      ]_vars

C2_Witness ==
    /\ pc = "returned"
    /\ Len(calls) = 3
    /\ calls[2].raised
    /\ ~calls[3].raised
    /\ Len(The(report).optimizations) = 1
    /\ The(report).optimizations[1].component = components[2].component_type

\* the relational-storage API does not find the cluster
NotFound(api) ==
    \/ api.raises /\ api.exc = "DBClusterNotFoundFault"
    \/ ~api.raises /\ The(api.resp).DBClusters = <<>>

\* C3: when the relational-storage API does not find the cluster (an empty
\* DBClusters list, or a not-found failure), analyze_rds_usage does not
\* raise and returns a mapping whose only key is 'error'.
C3_RdsNotFoundGivesError ==
    \A c \in last :
        (c.op = "analyze_rds_usage" /\ NotFound(c.env.describe_db_clusters))
        => /\ ~c.out.raised
           /\ DOMAIN The(c.out.ret) = {"error"}

C3_Witness ==
    \E c \in last :
        /\ c.op = "analyze_rds_usage"
        /\ c.env.describe_db_clusters.raises
        /\ c.env.describe_db_clusters.exc = "DBClusterNotFoundFault"
        /\ c.out = Return([error |-> "DBClusterNotFoundFault"])

\* C4: the returned savings_percentage is total_potential_savings * 100
\* over total_current_cost when that cost is not zero and over 1 when it is
\* zero; the division never fails on a zero divisor.
C4_SavingsPercentage ==
    /\ pc # "crashed"
    /\ Returned =>
         LET r == The(report)
             divisor == IF r.total_current_cost = 0 THEN 1 ELSE r.total_current_cost
         IN  /\ r.total_current_cost = total_cost
             /\ r.savings_percentage.den = divisor
             /\ FracEq(r.savings_percentage,
                       [num |-> r.total_potential_savings * 100, den |-> divisor])

C4_Witness ==
    /\ pc = "returned"
    /\ The(report).total_current_cost = 0
    /\ The(report).total_potential_savings = 0
    /\ The(report).savings_percentage.num = 0
    /\ Len(The(report).optimizations) > 0

\* C5: analyze_cluster_usage returns, for every name, zero estimated
\* savings, no recommendations and zeroed metrics, with the name it was
\* given in 'cluster'.
C5_ClusterUsagePlaceholder ==
    \A c \in last :
        c.op = "analyze_cluster_usage"
        => /\ ~c.out.raised
           /\ The(c.out.ret) =
                [cluster |-> c.args[1],
                 metrics |-> [cpu_utilization |-> 0, memory_utilization |-> 0,
                              pod_count |-> 0],
                 recommendations |-> <<>>,
                 total_estimated_savings |-> 0]

C5_Witness ==
    \E c \in last :
        /\ c.op = "analyze_cluster_usage"
        /\ c.args = <<"any-name">>
        /\ The(c.out.ret).cluster = "any-name"
        /\ The(c.out.ret).total_estimated_savings = 0

\* an external API failed during the call
ApiFailed(c) ==
    \/ c.op = "analyze_rds_usage" /\ c.env.describe_db_clusters.raises
    \/ c.op = "analyze_kafka_usage"
         /\ (c.env.client.raises \/ c.env.describe_cluster.raises)

\* C6: a call of analyze_rds_usage or analyze_kafka_usage during which an
\* external API fails (obtaining the streaming-cluster client included)
\* does not raise and returns a mapping whose only key is 'error'.
C6_ApiFailureGivesError ==
    \A c \in last :
        ApiFailed(c) => /\ ~c.out.raised
                        /\ DOMAIN The(c.out.ret) = {"error"}

\* the error lines of a stream, as the component types they name
ErrorLines(stream) ==
    LET errs == SelectSeq(stream, LAMBDA l : l.text = "Error analyzing")
    IN  [j \in 1..Len(errs) |-> errs[j].component_type]

\* C7: every analyzer that raised in the loop has exactly one line naming
\* its component type on standard error, and standard output has no such
\* line.
C7_ErrorsGoToStderr ==
    (pc \in {"loop", "returned", "exit"}) =>
        LET raised == RaisedUpTo(Len(calls) - 1)
        IN  /\ ErrorLines(stderr) =
                 [j \in 1..Len(raised) |-> components[raised[j]].component_type]
            /\ ErrorLines(stdout) = <<>>

\* C8: one call of generate_cost_report calls get_total_cost first and then
\* analyze_cluster_usage('securazion-production') once, and no other
\* analyzer; once that call has returned, optimizations has one entry,
\* tagged 'eks'.
C8_OneHardcodedAnalyzer ==
    LET expected ==
            << [op |-> "get_total_cost", args |-> <<>>, raised |-> FALSE],
               [op |-> "analyze_cluster_usage", args |-> <<"securazion-production">>,
                raised |-> FALSE] >>
    IN  /\ pc = "idle" => calls = <<>>
        /\ (pc = "loop" /\ idx = 1) => calls = SubSeq(expected, 1, 1)
        /\ (pc = "loop" /\ idx > 1) \/ Returned
           => /\ calls = expected
              /\ Len(The(report).optimizations) = 1
              /\ The(report).optimizations[1].component = "eks"

C8_Witness ==
    /\ pc = "returned"
    /\ Len(calls) = 2
    /\ calls[2].op = "analyze_cluster_usage"
    /\ Len(The(report).optimizations) = 1

\* C9: when the relational-storage API returns a non-empty DBClusters list,
\* analyze_rds_usage does not raise and returns a mapping without 'error':
\* cluster is the identifier, storage.allocated_gb the first cluster's
\* AllocatedStorage (100 when it has none), free_gb 0, percent_free 0,
\* recommendations empty, instance_class 'unknown' for a cluster without
\* members.
C9_RdsFoundGivesAnalysis ==
    \A c \in last :
        (/\ c.op = "analyze_rds_usage"
         /\ ~c.env.describe_db_clusters.raises
         /\ The(c.env.describe_db_clusters.resp).DBClusters # <<>>)
        => LET cluster == The(c.env.describe_db_clusters.resp).DBClusters[1]
           IN  /\ ~c.out.raised
               /\ "error" \notin DOMAIN The(c.out.ret)
               /\ The(c.out.ret).cluster = c.args[1]
               /\ The(c.out.ret).storage =
                    [allocated_gb |-> IF "AllocatedStorage" \in DOMAIN cluster
                                      THEN cluster.AllocatedStorage ELSE 100,
                     free_gb |-> 0, percent_free |-> 0]
               /\ The(c.out.ret).recommendations = <<>>
               /\ cluster.DBClusterMembers = <<>>
                  => The(c.out.ret).instance_class = "unknown"

\* C10: while the loop runs and after it, the components processed so far
\* are the first ones of the list, each called once and in order; the
\* entries of optimizations are exactly the components whose analyzer
\* returned, in list order; the running total is the sum of the entries'
\* total_estimated_savings (0 for an analysis without that key), and the
\* returned total_potential_savings is that sum.
C10_SavingsSumOverEntries ==
    (pc \in {"loop", "returned", "exit"}) =>
        LET n == Len(calls) - 1
            returned == ReturnedUpTo(n)
            entries == The(report).optimizations
        IN  /\ n = (IF Returned THEN Len(components) ELSE idx - 1)
            /\ \A k \in 1..n : /\ calls[k + 1].op = components[k].analyzer
                               /\ calls[k + 1].args = components[k].args
            /\ Len(entries) = Len(returned)
            /\ \A j \in 1..Len(entries) :
                 /\ entries[j].component = components[returned[j]].component_type
                 /\ \/ "error" \in DOMAIN entries[j].analysis
                    \/ entries[j].analysis.cluster = components[returned[j]].args[1]
            /\ total_potential_savings = SumSavings(entries)
            /\ Returned => The(report).total_potential_savings = SumSavings(entries)

C10_Witness ==
    /\ pc = "returned"
    /\ Len(components) = 2
    /\ ~calls[2].raised
    /\ "error" \in DOMAIN The(report).optimizations[1].analysis
    /\ calls[3].raised
    /\ Len(The(report).optimizations) = 1
    /\ The(report).total_potential_savings = 0

====
